---- MODULE Spec2Model ----
(***************************************************************************)
(* Musical CAPTCHA server (src/server.js): the session-bound challenge /   *)
(* verify protocol.  GET /api/challenge mints or replays the session's     *)
(* Solution; POST /api/verify compares a submitted answer against it.      *)
(*                                                                         *)
(* Each request handler runs to completion on Node's single thread, so a   *)
(* handler is one action.  A JavaScript value is a record                  *)
(*     [kind, val, elems]                                                  *)
(* kind  : "undefined" "null" "boolean" "number" "string" "object" "array" *)
(* val   : boolean 0/1; number: its value; string: its number of           *)
(*         characters; object: its numeric `length` property, or NoLength  *)
(*         when it has none; 0 otherwise                                   *)
(* elems : the elements of an array (strings), <<>> otherwise              *)
(***************************************************************************)
EXTENDS Integers, Sequences, FiniteSets, TLC

VARIABLES
    sessionStore,   \* session id -> req.session.solution of that session
    request,        \* the request handled last: [op, sid, userAnswer]
    handler,        \* the locals of the handler that ran last, and the line it
                    \* logged: [solution, isCorrect, challenge, log]
    response,       \* what that handler sent: [type, status, success, message]
    compared,       \* session id -> element-wise comparisons made against the Solution minted last
    tick            \* parity of the number of requests handled

vars == <<sessionStore, request, handler, response, compared, tick>>

-----------------------------------------------------------------------------
(* Program constants *)

NOTES == <<"C4", "D4", "E4", "F4", "G4", "A4", "B4">>

CHALLENGE_LENGTH == 5

NoteSet == {NOTES[i] : i \in DOMAIN NOTES}

-----------------------------------------------------------------------------
(* Bounds of the model *)

\* Math.random() is a generator whose state at the time of a request is not
\* known: a request finds it in one of the states 0..MaxSeed.
MaxSeed == 3

\* Submitted arrays and strings are at most CHALLENGE_LENGTH + MaxExtra long.
MaxExtra == 1

\* The comparison counter saturates here.
MaxCompared == 2

Sessions == {"s1", "s2"}

Seeds == 0..MaxSeed

-----------------------------------------------------------------------------
(* JavaScript values and the operations the handlers apply to them *)

NoLength == -1

JsUndefined == [kind |-> "undefined", val |-> 0, elems |-> <<>>]

JsNull == [kind |-> "null", val |-> 0, elems |-> <<>>]

JsBoolean(b) == [kind |-> "boolean", val |-> b, elems |-> <<>>]

JsNumber(n) == [kind |-> "number", val |-> n, elems |-> <<>>]

JsString(n) == [kind |-> "string", val |-> n, elems |-> <<>>]

JsObject(len) == [kind |-> "object", val |-> len, elems |-> <<>>]

JsArray(seq) == [kind |-> "array", val |-> 0, elems |-> seq]

\* ToBoolean, as `!v` and `if (v)` apply it.
Truthy(v) ==
    CASE v.kind \in {"undefined", "null"} -> FALSE
      [] v.kind \in {"boolean", "number", "string"} -> v.val # 0
      [] OTHER -> TRUE

\* v.length for a value that is neither undefined nor null; NoLength stands
\* for the value undefined (undefined === undefined).
LengthOf(v) ==
    CASE v.kind = "array" -> Len(v.elems)
      [] v.kind \in {"string", "object"} -> v.val
      [] OTHER -> NoLength

\* Reading a property of undefined or null throws a TypeError.
CanReadProperty(v) == v.kind \notin {"undefined", "null"}

\* Only arrays carry the method `every`.
HasEvery(v) == v.kind = "array"

-----------------------------------------------------------------------------
(* Math.random(), line 115 *)

RandomDenominator == 16

\* One step of the generator (a full-period linear congruential generator).
RandomNext(x) == (5 * x + 3) % RandomDenominator

RECURSIVE RandomState(_, _)
\* The generator's state after i calls, from state seed.
RandomState(seed, i) == IF i = 0 THEN seed ELSE RandomNext(RandomState(seed, i - 1))

\* Math.floor(Math.random() * NOTES.length), Math.random() = x / RandomDenominator.
RandomIndex(x) == (x * Len(NOTES)) \div RandomDenominator

\* NOTES[index] (0-based); an index outside the array reads undefined.
NoteAt(index) == IF index + 1 \in DOMAIN NOTES THEN NOTES[index + 1] ELSE "undefined"

\* The lower-case spelling of a note name: a string that differs from it
\* only in case.
LowerCase(note) ==
    CASE note = "C4" -> "c4" [] note = "D4" -> "d4" [] note = "E4" -> "e4"
      [] note = "F4" -> "f4" [] note = "G4" -> "g4" [] note = "A4" -> "a4"
      [] note = "B4" -> "b4" [] OTHER -> note

-----------------------------------------------------------------------------
(* The session middleware, lines 36-43 *)

\* A store that resolves every cookie to one record.
SessionKeyShared(sid) == "s1"

\* The store record a request's session cookie resolves to: its own.
SessionKey(sid) == sid

-----------------------------------------------------------------------------
(* GET /api/challenge, lines 104-134 *)

\* The loop of lines 114-117 run once too often.
NewChallengeOffByOne(seed) ==
    JsArray([i \in 1..(CHALLENGE_LENGTH + 1) |->
                NoteAt(RandomIndex(RandomState(seed, i)))])

\* Lines 113-117: CHALLENGE_LENGTH draws, one call of Math.random() each.
NewChallenge(seed) ==
    JsArray([i \in 1..CHALLENGE_LENGTH |->
                NoteAt(RandomIndex(RandomState(seed, i)))])

\* A handler that mints a new sequence on every request.
ChallengeForAlwaysNew(stored, seed) ==
    JsArray([i \in 1..CHALLENGE_LENGTH |->
                NoteAt(RandomIndex(RandomState(seed, i)))])

\* Lines 109-123: the pending Solution when the session holds one, a new
\* sequence otherwise.
ChallengeFor(stored, seed) ==
    IF Truthy(stored) THEN stored ELSE NewChallenge(seed)

AudioResponse ==
    [type |-> "audio", status |-> 200, success |-> FALSE, message |-> ""]

GetChallenge(sid, seed) ==
    LET key == SessionKey(sid)
        stored == sessionStore[key]
        challenge == ChallengeFor(stored, seed)
    IN  /\ sessionStore' = [sessionStore EXCEPT ![key] = challenge]
        /\ request' = [op |-> "challenge", sid |-> sid, userAnswer |-> JsUndefined]
        /\ handler' = [solution |-> JsUndefined, isCorrect |-> FALSE,
                       challenge |-> challenge,
                       log |-> IF Truthy(stored)
                               THEN "Replaying existing challenge"
                               ELSE "New Challenge Generated"]
        /\ response' = AudioResponse
        /\ compared' = IF challenge = stored THEN compared
                       ELSE [compared EXCEPT ![key] = 0]
        /\ tick' = 1 - tick

-----------------------------------------------------------------------------
(* POST /api/verify, lines 137-157 *)

\* Line 143 without its test of the session's Solution.
InvalidRequestNoSolutionTest(solution, userAnswer) ==
    \/ ~Truthy(userAnswer)
    \/ LengthOf(userAnswer) # CHALLENGE_LENGTH

\* Line 143.
InvalidRequest(solution, userAnswer) ==
    \/ ~Truthy(solution)
    \/ ~Truthy(userAnswer)
    \/ LengthOf(userAnswer) # LengthOf(solution)

\* A response that tells a session without a Solution from a bad answer.
InvalidRequestResponseLeaky(solution, userAnswer) ==
    [type |-> "json", status |-> 200, success |-> FALSE,
     message |-> IF Truthy(solution) THEN "Invalid request." ELSE "No challenge."]

\* Line 144.  The response is the same whichever test of line 143 failed.
InvalidRequestResponse(solution, userAnswer) ==
    [type |-> "json", status |-> 200, success |-> FALSE,
     message |-> "Invalid request."]

\* solution[index] (1-based here); past the end, or of a value that is no
\* array, it reads undefined.
ElementAt(v, index) ==
    IF index \in DOMAIN v.elems THEN v.elems[index] ELSE "undefined"

\* Line 147 throws a TypeError when userAnswer has no method `every`, or
\* when the callback reads solution[index] of undefined or null.
EveryThrows(userAnswer, solution) ==
    \/ ~HasEvery(userAnswer)
    \/ Len(userAnswer.elems) > 0 /\ ~CanReadProperty(solution)

\* A comparison that ignores case.
EveryNoteMatchesIgnoreCase(userAnswer, solution) ==
    \A index \in 1..Len(userAnswer.elems) :
        LowerCase(userAnswer.elems[index]) = LowerCase(solution.elems[index])

\* Line 147: userAnswer.every((note, index) => note === solution[index]).
EveryNoteMatches(userAnswer, solution) ==
    \A index \in 1..Len(userAnswer.elems) :
        userAnswer.elems[index] = ElementAt(solution, index)

\* Line 150 run only after a correct answer.
SolutionAfterVerifyKeptOnFailure(solution, isCorrect) ==
    IF isCorrect THEN JsNull ELSE solution

\* Line 150 run only after a wrong answer.
SolutionAfterVerifyKeptOnSuccess(solution, isCorrect) ==
    IF isCorrect THEN solution ELSE JsNull

\* Line 150 left out.
SolutionAfterVerifyKept(solution, isCorrect) == solution

\* Line 150: req.session.solution = null.
SolutionAfterVerify(solution, isCorrect) == JsNull

\* Lines 152-156.
VerifyResponse(isCorrect) ==
    IF isCorrect
    THEN [type |-> "json", status |-> 200, success |-> TRUE,
          message |-> "Verification successful!"]
    ELSE [type |-> "json", status |-> 200, success |-> FALSE,
          message |-> "Incorrect. Please try again."]

\* An exception thrown by a handler reaches Express's error handler, which
\* answers 500 with a page that is not JSON; the session is left as it was.
TypeErrorResponse ==
    [type |-> "error", status |-> 500, success |-> FALSE, message |-> "TypeError"]

\* A handler whose refusal names the first note of the Solution.
VerifyLeaky(solution, userAnswer) ==
    IF InvalidRequest(solution, userAnswer)
    THEN [response |-> InvalidRequestResponse(solution, userAnswer),
          stored |-> solution, isCorrect |-> FALSE, compared |-> FALSE]
    ELSE IF EveryThrows(userAnswer, solution)
    THEN [response |-> TypeErrorResponse,
          stored |-> solution, isCorrect |-> FALSE, compared |-> FALSE]
    ELSE LET isCorrect == EveryNoteMatches(userAnswer, solution)
         IN  [response |-> IF isCorrect THEN VerifyResponse(TRUE)
                           ELSE [VerifyResponse(FALSE) EXCEPT
                                    !.message = solution.elems[1]],
              stored |-> SolutionAfterVerify(solution, isCorrect),
              isCorrect |-> isCorrect, compared |-> TRUE]

\* The handler: what it sends, what it leaves in the session, isCorrect, and
\* whether it compared the answer element-wise.
Verify(solution, userAnswer) ==
    IF InvalidRequest(solution, userAnswer)
    THEN [response |-> InvalidRequestResponse(solution, userAnswer),
          stored |-> solution, isCorrect |-> FALSE, compared |-> FALSE]
    ELSE IF EveryThrows(userAnswer, solution)
    THEN [response |-> TypeErrorResponse,
          stored |-> solution, isCorrect |-> FALSE, compared |-> FALSE]
    ELSE LET isCorrect == EveryNoteMatches(userAnswer, solution)
         IN  [response |-> VerifyResponse(isCorrect),
              stored |-> SolutionAfterVerify(solution, isCorrect),
              isCorrect |-> isCorrect, compared |-> TRUE]

PostVerify(sid, userAnswer) ==
    LET key == SessionKey(sid)
        solution == sessionStore[key]
        out == Verify(solution, userAnswer)
    IN  /\ sessionStore' = [sessionStore EXCEPT ![key] = out.stored]
        /\ request' = [op |-> "verify", sid |-> sid, userAnswer |-> userAnswer]
        /\ handler' = [solution |-> solution, isCorrect |-> out.isCorrect,
                       challenge |-> JsUndefined, log |-> "User Answer"]
        /\ response' = out.response
        /\ compared' = IF out.compared /\ compared[key] < MaxCompared
                       THEN [compared EXCEPT ![key] = @ + 1]
                       ELSE compared
        /\ tick' = 1 - tick

-----------------------------------------------------------------------------
(* The answers a client may submit *)

\* The note after `note` in NOTES, cyclically: a note that differs from it.
OtherNote(note) ==
    LET i == CHOOSE j \in DOMAIN NOTES : NOTES[j] = note
    IN  NOTES[(i % Len(NOTES)) + 1]

Challenges == {NewChallenge(seed).elems : seed \in Seeds}

ArrayAnswers ==
    LET exact == Challenges
        wrong == {[c EXCEPT ![i] = OtherNote(c[i])] :
                    c \in Challenges, i \in 1..CHALLENGE_LENGTH}
        cased == {[c EXCEPT ![1] = LowerCase(c[1])] : c \in Challenges}
        short == {SubSeq(c, 1, n) : c \in Challenges, n \in 0..(CHALLENGE_LENGTH - 1)}
        long  == {c \o [i \in 1..k |-> c[1]] : c \in Challenges, k \in 1..MaxExtra}
    IN  {JsArray(a) : a \in exact \cup wrong \cup cased \cup short \cup long}

Lengths == {0, CHALLENGE_LENGTH - 1, CHALLENGE_LENGTH, CHALLENGE_LENGTH + MaxExtra}

NonArrayAnswers ==
    {JsUndefined, JsNull, JsBoolean(0), JsBoolean(1), JsNumber(0),
     JsNumber(CHALLENGE_LENGTH), JsObject(NoLength)}
    \cup {JsString(n) : n \in Lengths}
    \cup {JsObject(n) : n \in Lengths}

Answers == ArrayAnswers \cup NonArrayAnswers

-----------------------------------------------------------------------------
(* State of the parts of the program that the server's protocol does not   *)
(* touch; each part has a specification of its own, further down.          *)

VARIABLES
    audio,          \* one call of generateAudioData: its locals and its buffer
    env,            \* one sample of a tone segment and the envelope applied to it
    client,         \* the page's script: [userInput, isPlaying, playDisabled,
                    \* statusMessage, playing (Audio elements playing)]
    slots,          \* the page's fetches in flight
    race            \* two requests of one session in flight in the server

otherVars == <<audio, env, client, slots, race>>

allVars == <<vars, otherVars>>

\* No call of generateAudioData is under way.
AudioIdle ==
    [pc |-> "idle", notes |-> <<>>, index |-> 0, currentPosition |-> 0,
     totalSamples |-> 0, length |-> 0, tones |-> <<>>, outside |-> FALSE,
     noised |-> 0, channels |-> 0]

\* No sample is being computed.
EnvIdle == [i |-> 0, applied |-> FALSE, num |-> 0, den |-> 1]

\* Fetches in flight at once, at most.
MaxInFlight == 2

NoResponse == [type |-> "none", status |-> 0, success |-> FALSE, message |-> ""]

FreeSlot == [kind |-> "none", stage |-> "-", body |-> <<>>, result |-> NoResponse]

\* The page as loaded, lines 10-12 of public/script.js.
ClientIdle ==
    [userInput |-> <<>>, isPlaying |-> FALSE, playDisabled |-> FALSE,
     statusMessage |-> "", playing |-> 0]

SlotsIdle == [i \in 1..MaxInFlight |-> FreeSlot]

\* The requests of the race.
Requests == {"r1", "r2"}

\* Solutions minted in one run of the race, at most.
MaxMints == 2

\* No request: req.session and req.body are not set. minted numbers the
\* Solution that req.session.solution is a copy of.
IdleRequest ==
    [pc |-> "idle", op |-> "none", userAnswer |-> JsUndefined,
     session |-> JsUndefined, minted |-> 0, response |-> NoResponse]

\* The store holds no Solution for the session and no request is in flight.
\* minted counts the Solutions stored so far, wins the success responses sent
\* for each of them.
RaceIdle ==
    [store |-> JsUndefined, minted |-> 0, wins |-> [g \in 1..MaxMints |-> 0],
     reqs |-> [r \in Requests |-> IdleRequest]]

-----------------------------------------------------------------------------
(* The specification of the server's protocol *)

Init ==
    /\ sessionStore = [s \in Sessions |-> JsUndefined]
    /\ request = [op |-> "none", sid |-> "s1", userAnswer |-> JsUndefined]
    /\ handler = [solution |-> JsUndefined, isCorrect |-> FALSE,
                  challenge |-> JsUndefined, log |-> ""]
    /\ response = [type |-> "none", status |-> 0, success |-> FALSE, message |-> ""]
    /\ compared = [s \in Sessions |-> 0]
    /\ tick = 0
    /\ audio = AudioIdle
    /\ env = EnvIdle
    /\ client = ClientIdle
    /\ slots = SlotsIdle
    /\ race = RaceIdle

Next ==
    \/ /\ \E sid \in Sessions, seed \in Seeds : GetChallenge(sid, seed)
       /\ UNCHANGED otherVars
    \/ /\ \E sid \in Sessions, userAnswer \in Answers : PostVerify(sid, userAnswer)
       /\ UNCHANGED otherVars

Spec == Init /\ [][Next]_allVars

-----------------------------------------------------------------------------
(* Vocabulary of the properties *)

\* The session of the request handled last holds a Solution now.
HoldsSolution(sid) == sessionStore[sid].kind = "array"

\* The verify handler ran last and found a pending Solution in the session.
VerifiedPending == request.op = "verify" /\ handler.solution.kind = "array"

\* The verify handler ran last and found no Solution in the session.
VerifiedNone == request.op = "verify" /\ handler.solution.kind \in {"undefined", "null"}

IsSequence(v) == v.kind = "array"

Absent(v) == v.kind \in {"undefined", "null"}

\* The answer is the Solution, position by position.
SameSequence(answer, solution) ==
    /\ Len(answer.elems) = Len(solution.elems)
    /\ \A i \in 1..Len(solution.elems) : answer.elems[i] = solution.elems[i]

\* A sequence of CHALLENGE_LENGTH notes of the note set.
WellFormed(v) ==
    /\ v.kind = "array"
    /\ Len(v.elems) = CHALLENGE_LENGTH
    /\ \A i \in 1..Len(v.elems) : v.elems[i] \in {"C4", "D4", "E4", "F4", "G4", "A4", "B4"}

IsGenericFailure(r) ==
    r.type = "json" /\ r.success = FALSE /\ r.message = "Invalid request."

\* A verify call that found a Solution and an absent or wrong-length answer.
BadAnswerRun(h, r) ==
    /\ r.op = "verify"
    /\ h.solution.kind = "array"
    /\ \/ Absent(r.userAnswer)
       \/ LengthOf(r.userAnswer) # Len(h.solution.elems)

\* A verify call that found no Solution in the session.
NoSolutionRun(h, r) ==
    r.op = "verify" /\ h.solution.kind \in {"undefined", "null"}

-----------------------------------------------------------------------------
(* C1: when the session holds a pending Solution and the submitted answer  *)
(* is a sequence, verify answers with JSON whose success flag is true      *)
(* exactly when the answer has the Solution's length and equals it at      *)
(* every position, case included.                                          *)
C1_VerifyIffEqual ==
    (VerifiedPending /\ IsSequence(request.userAnswer)) =>
        /\ response.type = "json"
        /\ response.success <=> SameSequence(request.userAnswer, handler.solution)

\* A right-length answer that differs from the Solution only in the case of
\* one note was refused.
C1_Witness ==
    /\ VerifiedPending
    /\ IsSequence(request.userAnswer)
    /\ Len(request.userAnswer.elems) = CHALLENGE_LENGTH
    /\ request.userAnswer.elems[1] = LowerCase(handler.solution.elems[1])
    /\ \A i \in 2..CHALLENGE_LENGTH :
            request.userAnswer.elems[i] = handler.solution.elems[i]
    /\ response.success = FALSE

(* C2, as stated: after a verify call on a session that holds a pending    *)
(* Solution the session holds no Solution, whatever the answer was.        *)
C2_ClearedWhateverTheAnswer ==
    VerifiedPending => ~HoldsSolution(request.sid)

(* C2, amended: after a verify call on a session that holds a pending      *)
(* Solution, with an answer that is a sequence of the Solution's length,   *)
(* the session holds no Solution, whether the answer was right or wrong.   *)
C2_ClearedAfterComparison ==
    ( /\ VerifiedPending
      /\ IsSequence(request.userAnswer)
      /\ Len(request.userAnswer.elems) = Len(handler.solution.elems) )
    => ~HoldsSolution(request.sid)

\* A wrong answer of the right length was compared and the Solution is gone.
C2_Witness ==
    /\ VerifiedPending
    /\ IsSequence(request.userAnswer)
    /\ Len(request.userAnswer.elems) = Len(handler.solution.elems)
    /\ response.message = "Incorrect. Please try again."
    /\ sessionStore[request.sid] = JsNull

(* C3: each minted Solution is compared element-wise against at most one   *)
(* answer: once a verify has compared an answer with it, the session no    *)
(* longer holds it, so no later verify is compared against it.             *)
C3_OneComparisonPerSolution ==
    \A s \in Sessions :
        /\ compared[s] <= 1
        /\ compared[s] = 1 => ~HoldsSolution(s)

\* After a compared guess, a further guess of the right length found no
\* Solution to be compared against.
C3_Witness ==
    /\ VerifiedNone
    /\ compared[request.sid] = 1
    /\ IsSequence(request.userAnswer)
    /\ Len(request.userAnswer.elems) = CHALLENGE_LENGTH
    /\ IsGenericFailure(response)

(* C4: when verify is called twice in a row on a session, both times with  *)
(* the Solution the session held at the first call, the second call        *)
(* returns the generic invalid outcome, so the two calls succeed at most   *)
(* once.                                                                   *)
C4_SecondVerifyInvalid ==
    [][ ( /\ VerifiedPending
          /\ request.userAnswer = handler.solution
          /\ request'.op = "verify"
          /\ request'.sid = request.sid
          /\ request'.userAnswer = request.userAnswer )
        => ( /\ IsGenericFailure(response')
             /\ ~(response.success /\ response'.success) ) ]_vars

\* A verify carrying a whole well-formed Solution met a session whose
\* Solution an earlier comparison had cleared.
C4_Witness ==
    /\ request.op = "verify"
    /\ handler.solution = JsNull
    /\ WellFormed(request.userAnswer)
    /\ request.userAnswer.elems \in Challenges
    /\ IsGenericFailure(response)

(* C5: for a session with a pending Solution and every userAnswer that is  *)
(* not a sequence of the Solution's length (absent, null, an array of      *)
(* another length, a string or an object of any length), verify answers    *)
(* with JSON carrying success=false and raises no exception.               *)
C5_MalformedNeverFaults ==
    ( /\ VerifiedPending
      /\ ~( /\ IsSequence(request.userAnswer)
            /\ Len(request.userAnswer.elems) = Len(handler.solution.elems) ) )
    => (response.type = "json" /\ response.success = FALSE)

C7_SolutionWellFormed ==
    /\ \A s \in Sessions : Absent(sessionStore[s]) \/ WellFormed(sessionStore[s])
    /\ request.op = "challenge" => WellFormed(handler.challenge)

\* A challenge was minted and stored.
C7_Witness ==
    /\ request.op = "challenge"
    /\ handler.log = "New Challenge Generated"
    /\ WellFormed(sessionStore[request.sid])

(* C8: GET /api/challenge on a session that holds a Solution leaves the    *)
(* Solution unchanged and generates the audio from it; on a session that   *)
(* holds none it stores the sequence it generates the audio from.          *)
C8_CreateIdempotent ==
    [][ request'.op = "challenge" =>
          LET sid == request'.sid
          IN  /\ HoldsSolution(sid) =>
                    /\ sessionStore'[sid] = sessionStore[sid]
                    /\ handler'.challenge = sessionStore[sid]
              /\ ~HoldsSolution(sid) => sessionStore'[sid] = handler'.challenge ]_vars

\* A challenge request replayed the pending Solution.
C8_Witness ==
    /\ request.op = "challenge"
    /\ handler.log = "Replaying existing challenge"
    /\ handler.challenge = sessionStore[request.sid]
    /\ WellFormed(handler.challenge)

(* C9: a create or verify call on one session leaves the Solution of every *)
(* other session unchanged, and what it reads is its own session's         *)
(* Solution.                                                               *)
C9_SessionsIsolated ==
    [][ /\ \A s \in Sessions :
              s # request'.sid => sessionStore'[s] = sessionStore[s]
        /\ request'.op = "verify" => handler'.solution = sessionStore[request'.sid]
        /\ (request'.op = "challenge" /\ HoldsSolution(request'.sid))
              => handler'.challenge = sessionStore[request'.sid] ]_vars

\* Both sessions held a Solution, not the same one, and a verify on s1
\* consumed its own while that of s2 is still pending.
C9_Witness ==
    /\ request.op = "verify" /\ request.sid = "s1"
    /\ handler.solution.kind = "array"
    /\ sessionStore["s1"] = JsNull
    /\ HoldsSolution("s2")
    /\ sessionStore["s2"] # handler.solution

(* C10: of two verify calls in a row, one on a session with no Solution    *)
(* and one on a session with a Solution but an absent or wrong-length      *)
(* answer, the responses are identical.                                    *)
C10_FailuresIndistinguishable ==
    [][ ( \/ NoSolutionRun(handler, request) /\ BadAnswerRun(handler', request')
          \/ BadAnswerRun(handler, request) /\ NoSolutionRun(handler', request') )
        => response' = response ]_vars

\* A wrong-length answer to a pending Solution got the generic failure.
C10_Witness ==
    /\ BadAnswerRun(handler, request)
    /\ ~Absent(request.userAnswer)
    /\ IsGenericFailure(response)
    /\ HoldsSolution(request.sid)

(* C11: for a fixed answer, two verify calls in a row that both find a     *)
(* pending Solution and both fail get the same response, whatever the two  *)
(* Solutions are: a failed verification tells nothing of the Solution.     *)
C11_FailureHidesSolution ==
    [][ ( /\ VerifiedPending
          /\ ~response.success
          /\ request'.op = "verify"
          /\ handler'.solution.kind = "array"
          /\ ~response'.success
          /\ request'.userAnswer = request.userAnswer )
        => response' = response ]_vars

\* A right-length answer was refused against one Solution while the other
\* session holds a different Solution that the same answer does not match.
C11_Witness ==
    /\ VerifiedPending
    /\ response.message = "Incorrect. Please try again."
    /\ \E s \in Sessions :
          /\ s # request.sid
          /\ HoldsSolution(s)
          /\ sessionStore[s] # handler.solution
          /\ sessionStore[s] # request.userAnswer

-----------------------------------------------------------------------------
(* generateAudioData, lines 50-101 *)

\* Notes in one call of generateAudioData, at most.
MaxNotes == 5

SAMPLE_RATE == 44100

\* The durations of lines 22, 23, 25 and 65, in thousandths of a second
\* (0.4, 0.2, 0.5 and 0.02 seconds).
NOTE_DURATION_BASE == 400

SILENCE_DURATION_BASE == 200

PADDING_DURATION_SEC == 500

attackTimeSec == 20

\* Math.floor(duration * SAMPLE_RATE).  For the four durations above the
\* double-precision product floors to the same integer as the exact one.
Samples(duration) == (duration * SAMPLE_RATE) \div 1000

noteSamples == Samples(NOTE_DURATION_BASE)

silenceSamples == Samples(SILENCE_DURATION_BASE)

paddingSamples == Samples(PADDING_DURATION_SEC)

attackSamples == Samples(attackTimeSec)

\* Line 53.
MelodySamples(n) == (noteSamples + silenceSamples) * n

\* Line 56 with one padding forgotten.
TotalSamplesOnePadding(n) == paddingSamples + MelodySamples(n)

\* Line 56.
TotalSamples(n) == paddingSamples + MelodySamples(n) + paddingSamples

\* Lines 15-18, in hundredths of a hertz.
noteFrequencies ==
    [n \in NoteSet |->
        CASE n = "C4" -> 26163 [] n = "D4" -> 29366 [] n = "E4" -> 32963
          [] n = "F4" -> 34923 [] n = "G4" -> 39200 [] n = "A4" -> 44000
          [] n = "B4" -> 49388]

\* Property names every object literal inherits from Object.prototype (some
\* of them): noteFrequencies[name] is a function for these.
InheritedNames == {"constructor", "toString", "valueOf", "hasOwnProperty"}

\* Line 63: what noteFrequencies[note] is.
FrequencyKind(note) ==
    CASE note \in DOMAIN noteFrequencies -> "number"
      [] note \in InheritedNames -> "function"
      [] OTHER -> "undefined"

\* Lines 69-86: what a note writes into its segment.  A number is a
\* frequency and gives a tone; a function is truthy too, 1.0 / function is
\* NaN and every sample of the segment is NaN; undefined writes nothing.
SegmentKind(note) ==
    CASE FrequencyKind(note) = "number" -> IF noteFrequencies[note] # 0 THEN "tone" ELSE "silence"
      [] FrequencyKind(note) = "function" -> "NaN"
      [] OTHER -> "silence"

\* Line 89 without the gap.
NextPositionNoGap(position) == position + noteSamples

\* Line 89.
NextPosition(position) == position + noteSamples + silenceSamples

\* The names a note of the argument may have: two notes, a name that
\* noteFrequencies does not know, and an inherited property name.
AudioNoteNames == {"C4", "B4", "H4", "constructor"}

AudioInputs == UNION {[1..n -> AudioNoteNames] : n \in 0..MaxNotes}

\* Lines 51-60: the call, up to the loop over the notes.
AudioCall(notes) ==
    /\ audio.pc = "idle"
    /\ audio' = [pc |-> "tones", notes |-> notes, index |-> 0,
                 currentPosition |-> paddingSamples,
                 totalSamples |-> TotalSamples(Len(notes)),
                 length |-> TotalSamples(Len(notes)),
                 tones |-> <<>>, outside |-> FALSE, noised |-> 0, channels |-> 0]

\* Lines 62-90: one round of notes.forEach.  The samples currentPosition ..
\* currentPosition + noteSamples - 1 are written unless the note is silent;
\* a write past the end of a Float32Array is dropped.
AudioNote ==
    /\ audio.pc = "tones"
    /\ audio.index < Len(audio.notes)
    /\ LET note == audio.notes[audio.index + 1]
           kind == SegmentKind(note)
       IN  audio' = [audio EXCEPT
                !.index = @ + 1,
                !.tones = IF kind = "silence" THEN @
                          ELSE Append(@, [start |-> audio.currentPosition,
                                          count |-> noteSamples,
                                          note |-> note, kind |-> kind]),
                !.outside = @ \/ ( /\ kind # "silence"
                                   /\ audio.currentPosition + noteSamples > audio.length ),
                !.currentPosition = NextPosition(@)]

\* Lines 92-100: noise is added to the samples 0 .. totalSamples - 1 and the
\* buffer is returned as the one channel.
AudioNoise ==
    /\ audio.pc = "tones"
    /\ audio.index = Len(audio.notes)
    /\ audio' = [audio EXCEPT !.pc = "done",
                              !.noised = IF audio.totalSamples < audio.length
                                         THEN audio.totalSamples ELSE audio.length,
                              !.channels = 1]

AudioInit ==
    /\ audio = AudioIdle
    /\ env = EnvIdle
    /\ client = ClientIdle
    /\ slots = SlotsIdle
    /\ race = RaceIdle
    /\ sessionStore = [s \in Sessions |-> JsUndefined]
    /\ request = [op |-> "none", sid |-> "s1", userAnswer |-> JsUndefined]
    /\ handler = [solution |-> JsUndefined, isCorrect |-> FALSE,
                  challenge |-> JsUndefined, log |-> ""]
    /\ response = [type |-> "none", status |-> 0, success |-> FALSE, message |-> ""]
    /\ compared = [s \in Sessions |-> 0]
    /\ tick = 0

AudioNext ==
    \/ /\ \E notes \in AudioInputs : AudioCall(notes)
       /\ UNCHANGED <<vars, env, client, slots, race>>
    \/ /\ AudioNote
       /\ UNCHANGED <<vars, env, client, slots, race>>
    \/ /\ AudioNoise
       /\ UNCHANGED <<vars, env, client, slots, race>>

SpecAudio == AudioInit /\ [][AudioNext]_allVars

-----------------------------------------------------------------------------
(* Vocabulary of the properties of generateAudioData *)

AudioDone == audio.pc = "done"

\* Where the k-th segment (k from 0) is to start.
SlotStart(k) == paddingSamples + k * (noteSamples + silenceSamples)

\* A tone sample was written at index idx.
ToneWrittenAt(idx) ==
    \E j \in DOMAIN audio.tones :
        audio.tones[j].start <= idx /\ idx < audio.tones[j].start + audio.tones[j].count

\* Index idx lies in the tone part of one of the first n slots.
InToneOfSlot(idx, n) ==
    /\ idx >= paddingSamples
    /\ (idx - paddingSamples) \div (noteSamples + silenceSamples) < n
    /\ (idx - paddingSamples) % (noteSamples + silenceSamples) < noteSamples

\* The first and last index of the buffer, of each padding, of each tone
\* and of each gap.
ProbeIndices(n) ==
    {0, paddingSamples - 1, SlotStart(n), SlotStart(n) + paddingSamples - 1}
    \cup UNION {{SlotStart(k) - 1, SlotStart(k), SlotStart(k) + noteSamples - 1,
                 SlotStart(k) + noteSamples, SlotStart(k + 1) - 1} : k \in 0..(n - 1)}

(* C12: for a note sequence of any length N >= 0, generateAudioData        *)
(* returns one channel of exactly 2*paddingSamples +                       *)
(* N*(noteSamples + silenceSamples) samples, and no tone sample is written *)
(* outside that buffer.                                                    *)
C12_BufferLength ==
    /\ ~audio.outside
    /\ \A j \in DOMAIN audio.tones :
          /\ audio.tones[j].start >= 0
          /\ audio.tones[j].start + audio.tones[j].count <= audio.length
    /\ AudioDone =>
          /\ audio.channels = 1
          /\ audio.length = 2 * paddingSamples
                              + Len(audio.notes) * (noteSamples + silenceSamples)

\* A call with CHALLENGE_LENGTH notes returned after writing as many tones.
C12_Witness ==
    /\ AudioDone
    /\ Len(audio.notes) = CHALLENGE_LENGTH
    /\ Len(audio.tones) = CHALLENGE_LENGTH
    /\ audio.tones[CHALLENGE_LENGTH].start + noteSamples + silenceSamples + paddingSamples
          = audio.length

(* C13: for a Challenge (notes of the note set) the k-th tone (k from 0)   *)
(* occupies exactly the noteSamples indices from paddingSamples +          *)
(* k*(noteSamples + silenceSamples), no tone sample is written at any      *)
(* other index (paddings and gaps, the gap after the last tone included),  *)
(* and the noise is added to every index of the buffer.                    *)
C13_ToneLayout ==
    (AudioDone /\ \A i \in DOMAIN audio.notes : audio.notes[i] \in NoteSet) =>
        LET n == Len(audio.notes)
        IN  /\ Len(audio.tones) = n
            /\ \A k \in 0..(n - 1) :
                  /\ audio.tones[k + 1].start = SlotStart(k)
                  /\ audio.tones[k + 1].count = noteSamples
                  /\ audio.tones[k + 1].note = audio.notes[k + 1]
                  /\ audio.tones[k + 1].kind = "tone"
            /\ \A idx \in ProbeIndices(n) : ToneWrittenAt(idx) <=> InToneOfSlot(idx, n)
            /\ audio.noised = audio.length

\* A Challenge of two different notes was laid out and noise added.
C13_Witness ==
    /\ AudioDone
    /\ Len(audio.notes) = CHALLENGE_LENGTH
    /\ \A i \in DOMAIN audio.notes : audio.notes[i] \in NoteSet
    /\ audio.notes[1] # audio.notes[2]
    /\ audio.noised = audio.length
    /\ ToneWrittenAt(SlotStart(CHALLENGE_LENGTH - 1))
    /\ ~ToneWrittenAt(audio.length - paddingSamples - 1)

(* C14: a note that is not in the note set contributes a silent segment:   *)
(* nothing is written in its slot, the buffer length is unchanged and      *)
(* every later tone starts at its own offset.                              *)
C14_UnknownNoteSilent ==
    AudioDone =>
        /\ audio.length = 2 * paddingSamples
                            + Len(audio.notes) * (noteSamples + silenceSamples)
        /\ \A k \in 0..(Len(audio.notes) - 1) :
              IF audio.notes[k + 1] \in NoteSet
              THEN \E j \in DOMAIN audio.tones :
                      /\ audio.tones[j].start = SlotStart(k)
                      /\ audio.tones[j].kind = "tone"
              ELSE ~ToneWrittenAt(SlotStart(k))

-----------------------------------------------------------------------------
(* The envelope of a tone segment, lines 64-86 *)

\* Line 67 (0.5), in tenths.
maxAmplitude == 5

\* An attack ramp that is one sample early.
AmplitudeEarlyAttack(i) ==
    IF i < attackSamples
    THEN [num |-> maxAmplitude * (i + 1), den |-> 10 * attackSamples]
    ELSE [num |-> maxAmplitude * (noteSamples - i),
          den |-> 10 * (noteSamples - attackSamples)]

\* Lines 78-84: the amplitude of sample i of a segment, as the fraction
\* num / den.  In the decay,
\*   1 - (i - attackSamples) / (noteSamples - attackSamples)
\*     = (noteSamples - i) / (noteSamples - attackSamples).
Amplitude(i) ==
    IF i < attackSamples
    THEN [num |-> maxAmplitude * i, den |-> 10 * attackSamples]
    ELSE [num |-> maxAmplitude * (noteSamples - i),
          den |-> 10 * (noteSamples - attackSamples)]

\* Line 85: Math.max(0, amplitude), the factor applied to the raw sample.
Envelope(i) ==
    LET a == Amplitude(i)
    IN  IF a.num < 0 THEN [num |-> 0, den |-> a.den] ELSE a

\* The sample index of one round of the loop of line 71.
EnvInit ==
    /\ env \in {[i |-> i, applied |-> FALSE, num |-> 0, den |-> 1] :
                    i \in 0..(noteSamples - 1)}
    /\ audio = AudioIdle
    /\ client = ClientIdle
    /\ slots = SlotsIdle
    /\ race = RaceIdle
    /\ sessionStore = [s \in Sessions |-> JsUndefined]
    /\ request = [op |-> "none", sid |-> "s1", userAnswer |-> JsUndefined]
    /\ handler = [solution |-> JsUndefined, isCorrect |-> FALSE,
                  challenge |-> JsUndefined, log |-> ""]
    /\ response = [type |-> "none", status |-> 0, success |-> FALSE, message |-> ""]
    /\ compared = [s \in Sessions |-> 0]
    /\ tick = 0

\* Lines 72-85 for that index.
ApplyEnvelope ==
    /\ ~env.applied
    /\ env' = [i |-> env.i, applied |-> TRUE,
               num |-> Envelope(env.i).num, den |-> Envelope(env.i).den]
    /\ UNCHANGED <<vars, audio, client, slots, race>>

EnvNext == ApplyEnvelope

SpecEnvelope == EnvInit /\ [][EnvNext]_allVars

\* The envelope does not exceed maxAmplitude: num / den <= maxAmplitude / 10.
WithinMaxAmplitude == 10 * env.num <= maxAmplitude * env.den

(* C15, as stated: the envelope applied to the first sample (index 0) and  *)
(* to the last sample (index noteSamples - 1) of a tone segment is 0, and  *)
(* at no index does it exceed the maximum amplitude.                       *)
C15_EnvelopeEndsAtZero ==
    env.applied =>
        /\ env.i \in {0, noteSamples - 1} => env.num = 0
        /\ WithinMaxAmplitude

(* C15, amended: the envelope applied to the first sample is 0; the one    *)
(* applied to the last sample is maxAmplitude / (noteSamples -             *)
(* attackSamples), which is not 0, as at every index but the first; at no  *)
(* index does the envelope exceed the maximum amplitude.                   *)
C15_EnvelopeStartsAtZero ==
    env.applied =>
        /\ env.i = 0 => env.num = 0
        /\ env.i = noteSamples - 1 =>
              /\ env.num = maxAmplitude
              /\ env.den = 10 * (noteSamples - attackSamples)
        /\ env.i > 0 => env.num > 0
        /\ WithinMaxAmplitude

\* The envelope of the last sample of a segment was computed and is not 0.
C15_Witness ==
    /\ env.applied
    /\ env.i = noteSamples - 1
    /\ env.num > 0

\* ---------------------------------------------------------------------------
\* The page's script, public/script.js, talking to the server for one session
\* ---------------------------------------------------------------------------

\* The session of the page's cookie.
ClientSession == "s1"

\* The number of notes the page collects and submits, lines 133 and 156.
InputLength == 5

\* The sequences the user types in this model: the Solution of seed 0 and the
\* same with its last note replaced.
TypedSequences ==
    {NewChallenge(0).elems,
     [NewChallenge(0).elems EXCEPT ![CHALLENGE_LENGTH] = OtherNote(@)]}

IsPrefix(s, t) == Len(s) <= Len(t) /\ SubSeq(t, 1, Len(s)) = s

\* The clicks of the user in this model: the next note of a typed sequence,
\* or any key once the input is full.
Typing(userInput, note) ==
    \/ Len(userInput) >= InputLength
    \/ \E t \in TypedSequences : IsPrefix(Append(userInput, note), t)

FreeSlots == {i \in 1..MaxInFlight : slots[i].kind = "none"}

\* The slot a new fetch takes.
NextSlot == CHOOSE i \in FreeSlots : \A j \in FreeSlots : i <= j

\* if (isPlaying) return, line 88.
PlayBlockedNever(isPlaying) == FALSE

PlayBlocked(isPlaying) == isPlaying

\* if (isPlaying) return, line 129.
KeyBlockedNever(isPlaying) == FALSE

KeyBlocked(isPlaying) == isPlaying

\* if (userInput.length < 5), line 133.
CanPushOneMore(userInput) == Len(userInput) <= InputLength

CanPush(userInput) == Len(userInput) < InputLength

\* if (userInput.length !== 5), line 156.
Incomplete(userInput) == Len(userInput) # InputLength

\* The Play button's click handler up to its first await, lines 87-100.
PlayClick ==
    /\ FreeSlots # {}
    /\ IF PlayBlocked(client.isPlaying)
       THEN UNCHANGED <<client, slots>>
       ELSE /\ client' = [client EXCEPT !.statusMessage = "",
                                        !.userInput = <<>>,
                                        !.isPlaying = TRUE,
                                        !.playDisabled = TRUE]
            /\ slots' = [slots EXCEPT ![NextSlot] =
                   [kind |-> "challenge", stage |-> "request",
                    body |-> <<>>, result |-> NoResponse]]
    /\ UNCHANGED <<vars, audio, env, race>>

\* A piano key's click handler, lines 127-143.
KeyClick(note) ==
    /\ Typing(client.userInput, note)
    /\ IF KeyBlocked(client.isPlaying)
       THEN UNCHANGED client
       ELSE IF CanPush(client.userInput)
            THEN client' = [client EXCEPT !.userInput = Append(@, note)]
            ELSE UNCHANGED client
    /\ UNCHANGED <<vars, audio, env, slots, race>>

\* The Reset button's click handler, lines 147-152.
ResetClick ==
    /\ client' = [client EXCEPT !.userInput = <<>>, !.statusMessage = ""]
    /\ UNCHANGED <<vars, audio, env, slots, race>>

\* The Submit button's click handler up to its await, lines 155-166.
SubmitClick ==
    /\ FreeSlots # {}
    /\ IF Incomplete(client.userInput)
       THEN /\ client' = [client EXCEPT
                   !.statusMessage = "Please enter all 5 notes."]
            /\ UNCHANGED slots
       ELSE /\ slots' = [slots EXCEPT ![NextSlot] =
                   [kind |-> "verify", stage |-> "request",
                    body |-> client.userInput, result |-> NoResponse]]
            /\ UNCHANGED client
    /\ UNCHANGED <<vars, audio, env, race>>

\* The server handles the page's GET /api/challenge.
ServeChallenge(i, seed) ==
    /\ slots[i].kind = "challenge"
    /\ slots[i].stage = "request"
    /\ GetChallenge(ClientSession, seed)
    /\ slots' = [slots EXCEPT ![i].stage = "response",
                              ![i].result = AudioResponse]
    /\ UNCHANGED <<audio, env, client, race>>

\* The server handles the page's POST /api/verify; the slot then holds the
\* response in place of the request.
ServeVerify(i) ==
    /\ slots[i].kind = "verify"
    /\ slots[i].stage = "request"
    /\ PostVerify(ClientSession, JsArray(slots[i].body))
    /\ slots' = [slots EXCEPT ![i] =
           [kind |-> "verify", stage |-> "response", body |-> <<>>,
            result |-> Verify(sessionStore[SessionKey(ClientSession)],
                              JsArray(slots[i].body)).response]]
    /\ UNCHANGED <<audio, env, client, race>>

\* A fetch is rejected, or the reading of its body is: the catch blocks,
\* lines 110-116 and 176-179.
FetchFails(i) ==
    /\ slots[i].kind # "none"
    /\ client' = IF slots[i].kind = "challenge"
                 THEN [client EXCEPT
                         !.statusMessage = "An error occurred. Please try again.",
                         !.isPlaying = FALSE,
                         !.playDisabled = FALSE]
                 ELSE [client EXCEPT
                         !.statusMessage = "An error occurred during verification."]
    /\ slots' = [slots EXCEPT ![i] = FreeSlot]
    /\ UNCHANGED <<vars, audio, env, race>>

\* The challenge's audio arrives and starts to play, lines 101-109.
AudioPlays(i) ==
    /\ slots[i].kind = "challenge"
    /\ slots[i].stage = "response"
    /\ client' = [client EXCEPT !.playing = @ + 1]
    /\ slots' = [slots EXCEPT ![i] = FreeSlot]
    /\ UNCHANGED <<vars, audio, env, race>>

\* The challenge's audio arrives and the promise of audio.play(), line 104,
\* is rejected (the browser refuses or cannot decode): no ended event follows.
AudioRefused(i) ==
    /\ slots[i].kind = "challenge"
    /\ slots[i].stage = "response"
    /\ slots' = [slots EXCEPT ![i] = FreeSlot]
    /\ UNCHANGED <<vars, audio, env, client, race>>

\* audio.onended, lines 105-109.
AudioEnded ==
    /\ client.playing > 0
    /\ client' = [client EXCEPT !.playing = @ - 1,
                                !.isPlaying = FALSE,
                                !.playDisabled = FALSE]
    /\ UNCHANGED <<vars, audio, env, slots, race>>

\* userInput = [], line 174.
InputAfterVerify(userInput) == <<>>

\* The verify response arrives, lines 167-179.
VerifyArrives(i) ==
    /\ slots[i].kind = "verify"
    /\ slots[i].stage = "response"
    /\ client' = IF slots[i].result.type = "json"
                 THEN [client EXCEPT
                         !.statusMessage = slots[i].result.message,
                         !.userInput = InputAfterVerify(@)]
                 ELSE [client EXCEPT
                         !.statusMessage = "An error occurred during verification."]
    /\ slots' = [slots EXCEPT ![i] = FreeSlot]
    /\ UNCHANGED <<vars, audio, env, race>>

ClientInit ==
    /\ sessionStore = [s \in Sessions |-> JsUndefined]
    /\ request = [op |-> "none", sid |-> "s1", userAnswer |-> JsUndefined]
    /\ handler = [solution |-> JsUndefined, isCorrect |-> FALSE,
                  challenge |-> JsUndefined, log |-> ""]
    /\ response = [type |-> "none", status |-> 0, success |-> FALSE, message |-> ""]
    /\ compared = [s \in Sessions |-> 0]
    /\ tick = 0
    /\ audio = AudioIdle
    /\ env = EnvIdle
    /\ client = ClientIdle
    /\ slots = SlotsIdle
    /\ race = RaceIdle

ClientNext ==
    \/ PlayClick
    \/ \E note \in NoteSet : KeyClick(note)
    \/ ResetClick
    \/ SubmitClick
    \/ \E i \in 1..MaxInFlight, seed \in Seeds : ServeChallenge(i, seed)
    \/ \E i \in 1..MaxInFlight : ServeVerify(i)
    \/ \E i \in 1..MaxInFlight : FetchFails(i)
    \/ \E i \in 1..MaxInFlight : AudioPlays(i)
    \/ \E i \in 1..MaxInFlight : AudioRefused(i)
    \/ AudioEnded
    \/ \E i \in 1..MaxInFlight : VerifyArrives(i)

SpecClient == ClientInit /\ [][ClientNext]_allVars

\* No fetch of the page is in flight.
Quiet == \A i \in 1..MaxInFlight : slots[i].kind = "none"

\* The count of the page's challenge fetches in flight.
ChallengesInFlight ==
    Cardinality({i \in 1..MaxInFlight : slots[i].kind = "challenge"})

\* C16: a submission attempt leaves no Solution and no input. The server's
\* handling of the page's POST /api/verify leaves the session without a
\* Solution, and the arrival of its response leaves userInput empty: the
\* session holds a Solution again only through a later GET /api/challenge.
C16_SubmissionClearsBoth ==
    [][ /\ \A i \in 1..MaxInFlight :
              ServeVerify(i) => ~HoldsSolution(ClientSession)'
        /\ \A i \in 1..MaxInFlight :
              VerifyArrives(i) =>
                  /\ client'.userInput = <<>>
                  /\ client'.statusMessage = slots[i].result.message
                  /\ ~HoldsSolution(ClientSession)' \/ request'.op = "challenge"
      ]_allVars

\* A wrong answer was submitted against a pending Solution and its response
\* has arrived: nothing is left to answer.
C16_Witness ==
    /\ Quiet
    /\ client.statusMessage = "Incorrect. Please try again."
    /\ client.userInput = <<>>
    /\ request.op = "verify"
    /\ handler.solution.kind = "array"
    /\ ~HoldsSolution(ClientSession)

\* C17: input is blocked while the challenge plays. While isPlaying is true a
\* key click leaves userInput unchanged, a Play click sends no request, and
\* userInput is empty.
C17_InputBlockedWhilePlaying ==
    [][ /\ client'.isPlaying => client'.userInput = <<>>
        /\ client.isPlaying =>
              /\ (\E note \in NoteSet : KeyClick(note)) =>
                     client'.userInput = client.userInput
              /\ PlayClick => slots' = slots
        /\ ChallengesInFlight' + client'.playing <= 1
      ]_allVars

\* The challenge is playing and the user has clicked keys or buttons since.
C17_Witness ==
    /\ client.isPlaying
    /\ client.playing = 1
    /\ client.userInput = <<>>
    /\ client.statusMessage = "Please enter all 5 notes."

\* C18: Play is always released. Whenever isPlaying is true an event that
\* sets it back to false and re-enables the button is still to come: the
\* challenge request is in flight, or the audio is playing and will end.
C18_PlayAlwaysReleased ==
    /\ client.isPlaying = client.playDisabled
    /\ client.isPlaying => ChallengesInFlight > 0 \/ client.playing > 0

\* C19: userInput holds at most 5 notes and every POST /api/verify of the page
\* carries exactly 5, the length of a Solution.
C19_SubmitsFiveNotes ==
    /\ Len(client.userInput) <= CHALLENGE_LENGTH
    /\ \A i \in 1..MaxInFlight :
          slots[i].kind = "verify" /\ slots[i].stage = "request" =>
              Len(slots[i].body) = CHALLENGE_LENGTH
    /\ request.op = "verify" =>
          /\ request.userAnswer.kind = "array"
          /\ Len(request.userAnswer.elems) = CHALLENGE_LENGTH
    /\ handler.solution.kind = "array" =>
          Len(handler.solution.elems) = Len(request.userAnswer.elems)

\* Five notes are typed, one submission of them is on its way and another has
\* been compared by the server.
C19_Witness ==
    /\ Len(client.userInput) = CHALLENGE_LENGTH
    /\ \E i \in 1..MaxInFlight :
          slots[i].kind = "verify" /\ slots[i].stage = "request"
    /\ request.op = "verify"
    /\ handler.solution.kind = "array"

\* ---------------------------------------------------------------------------
\* Two requests of one session in flight in the server
\* ---------------------------------------------------------------------------
\* The session middleware of lines 36-43 uses the default store of
\* express-session, which keeps each session serialised: on arrival a request
\* gets req.session as its own parsed copy and its route handler runs in a
\* later turn of the event loop; when the handler ends the response, the copy
\* is written back if the handler changed it (resave: false).

\* The answers the racing requests carry: the Solution of each seed.
RaceAnswers == {JsArray(c) : c \in Challenges}

\* req.session.solution after the handler differs from what was loaded.
SessionModified(loaded, after) == after # loaded

\* The session middleware loads req.session for a GET /api/challenge.
LoadForChallenge(r) ==
    /\ race.reqs[r].pc = "idle"
    /\ race' = [race EXCEPT !.reqs[r] =
           [pc |-> "loaded", op |-> "challenge", userAnswer |-> JsUndefined,
            session |-> race.store, minted |-> race.minted,
            response |-> NoResponse]]
    /\ UNCHANGED <<vars, audio, env, client, slots>>

\* The session middleware loads req.session for a POST /api/verify.
LoadForVerify(r, userAnswer) ==
    /\ race.reqs[r].pc = "idle"
    /\ race' = [race EXCEPT !.reqs[r] =
           [pc |-> "loaded", op |-> "verify", userAnswer |-> userAnswer,
            session |-> race.store, minted |-> race.minted,
            response |-> NoResponse]]
    /\ UNCHANGED <<vars, audio, env, client, slots>>

\* The handler of GET /api/challenge runs on its copy and the copy is saved.
HandleChallenge(r, seed) ==
    LET req == race.reqs[r]
        challenge == ChallengeFor(req.session, seed)
        modified == SessionModified(req.session, challenge)
    IN  /\ req.pc = "loaded"
        /\ req.op = "challenge"
        /\ modified => race.minted < MaxMints
        /\ race' = [race EXCEPT
               !.store = IF modified THEN challenge ELSE @,
               !.minted = IF modified THEN @ + 1 ELSE @,
               !.reqs[r] = [IdleRequest EXCEPT !.response = AudioResponse]]
        /\ UNCHANGED <<vars, audio, env, client, slots>>

\* The handler of POST /api/verify runs on its copy and the copy is saved.
HandleVerify(r) ==
    LET req == race.reqs[r]
        out == Verify(req.session, req.userAnswer)
        modified == SessionModified(req.session, out.stored)
    IN  /\ req.pc = "loaded"
        /\ req.op = "verify"
        /\ race' = [race EXCEPT
               !.store = IF modified THEN out.stored ELSE @,
               !.wins = IF out.response.success
                        THEN [@ EXCEPT ![req.minted] = @ + 1]
                        ELSE @,
               !.reqs[r] = [IdleRequest EXCEPT !.response = out.response]]
        /\ UNCHANGED <<vars, audio, env, client, slots>>

RaceInit ==
    /\ sessionStore = [s \in Sessions |-> JsUndefined]
    /\ request = [op |-> "none", sid |-> "s1", userAnswer |-> JsUndefined]
    /\ handler = [solution |-> JsUndefined, isCorrect |-> FALSE,
                  challenge |-> JsUndefined, log |-> ""]
    /\ response = [type |-> "none", status |-> 0, success |-> FALSE, message |-> ""]
    /\ compared = [s \in Sessions |-> 0]
    /\ tick = 0
    /\ audio = AudioIdle
    /\ env = EnvIdle
    /\ client = ClientIdle
    /\ slots = SlotsIdle
    /\ race = RaceIdle

RaceNext ==
    \/ \E r \in Requests : LoadForChallenge(r)
    \/ \E r \in Requests, userAnswer \in RaceAnswers : LoadForVerify(r, userAnswer)
    \/ \E r \in Requests, seed \in Seeds : HandleChallenge(r, seed)
    \/ \E r \in Requests : HandleVerify(r)

SpecRace == RaceInit /\ [][RaceNext]_allVars

\* C20: two verify requests of one session in flight together, both with the
\* correct answer: at most one success response is sent for a minted Solution.
C20_AtMostOneSuccess ==
    \A g \in 1..MaxMints : race.wins[g] <= 1

====
